---- MODULE Spec2Model ----
\* State machine of the Money Lens dashboard client (frontend/src/App.tsx and
\* its components): the analytics fetch coordinator (fetchData), the reset
\* workflow (handleRefresh), the upload workflow (handleFileUpload), the
\* chat turns (sendMessage), the tabs, the debounced snapshot card
\* (SnapshotCard) and the transaction table (TransactionTable).  Every
\* `await` of the source is a suspension point: the code before it and the
\* code after it are separate actions.
EXTENDS Integers, Sequences, FiniteSets, TLC

\* ---------------------------------------------------------------- values

\* JavaScript null / undefined, and the falsy test of `a || b` and `if (a)`.
Null == "null"
Undefined == "undefined"
Truthy(x) == x \notin {Undefined, Null, ""}

\* Text the table searches in is a sequence of characters; a date string is
\* the year, month and day of its ISO form "YYYY-MM-DD"; the optional
\* category is tagged with its presence.
NoCategory == [present |-> FALSE, text |-> <<>>]
Category(text) == [present |-> TRUE, text |-> text]
Transaction(date, description, amount, type, category, cur) ==
    [date |-> date, description |-> description, amount |-> amount,
     type |-> type, category |-> category, currency |-> cur]

\* The transactions the backend answers with.  Tx1 and Tx4 share a date; Tx5
\* is found by its category only.
Tx1 == Transaction(<<2024, 1, 5>>, <<"C", "a", "f", "e">>, 3, "debit", Category(<<"F", "o", "o", "d">>), "EUR")
Tx2 == Transaction(<<2024, 3, 1>>, <<"R", "E", "N", "T">>, 5, "debit", NoCategory, Undefined)
Tx3 == Transaction(<<2023, 12, 31>>, <<"P", "a", "y">>, 9, "credit", Category(<<"J", "o", "b">>), Undefined)
Tx4 == Transaction(<<2024, 1, 5>>, <<"c", "a", "r", "e">>, 2, "credit", NoCategory, Undefined)
Tx5 == Transaction(<<2024, 2, 29>>, <<"T", "e", "a">>, 1, "debit", Category(<<"C", "A", "F", "E">>), Undefined)
Rows == {Tx1, Tx2, Tx3, Tx4, Tx5}

\* Longest list the table is given row by row, and the length of the list
\* that fills more than one page.
MaxRows == 3
LongRows == 37

\* A list of n transactions on n consecutive days, oldest first, every third
\* one a credit.
LongList(n) ==
    [k \in 1..n |-> Transaction(<<2024, 1 + ((k - 1) \div 28), 1 + ((k - 1) % 28)>>,
                                <<"T">>, k, IF k % 3 = 0 THEN "credit" ELSE "debit",
                                NoCategory, Undefined)]

\* The lists the table is shown.
TableLists ==
    UNION {[1..n -> Rows] : n \in 0..MaxRows} \cup {LongList(LongRows)}

\* The texts typed into the search box, and the type filters.
Searches == {<<>>, <<"c", "a">>, <<"C", "A", "F", "E">>, <<"z">>}
FilterTypes == {"all", "credit", "debit"}

\* Bodies the backend may answer with, one small set per view; res.json()
\* resolves with one of them.
ZeroSummary == [total_income |-> 0, total_expense |-> 0, net_balance |-> 0, transaction_count |-> 0]
OtherSummary == [total_income |-> 5, total_expense |-> 3, net_balance |-> 2, transaction_count |-> 2]
EmptyMap == [k \in {} |-> 0]
SummaryBodies == {ZeroSummary, OtherSummary}
SpendingBodies == {EmptyMap, [k \in {"food"} |-> 3]}
TrendsBodies == {EmptyMap, [k \in {"2024-01"} |-> [income |-> 5, expense |-> 3]]}
MerchantsBodies == {<<>>, <<[name |-> "acme", value |-> 3]>>}
TransactionsBodies == {<<>>, <<Tx1, Tx2>>, <<Tx2>>}

\* The five analytics views in request order (the order of the Promise.all array).
Views == <<"summary", "spending", "trends", "merchants", "transactions">>
ViewSet == {Views[k] : k \in 1..Len(Views)}
NoView == Len(Views) + 1

ViewBodies(v) ==
    CASE v = "summary" -> SummaryBodies
      [] v = "spending" -> SpendingBodies
      [] v = "trends" -> TrendsBodies
      [] v = "merchants" -> MerchantsBodies
      [] v = "transactions" -> TransactionsBodies

\* Callers of fetchData: the mount effect and handleFileUpload.
Callers == {"mount", "upload"}

\* Messages of rejected fetches (the TypeError of the browser).
TransportMessages == {"Failed to fetch"}

\* Error bodies of a non-2xx upload response.
ErrBodies == [detail : {Undefined, "Unsupported file"}, message : {Undefined, "Server busy"}]

\* Upload response bodies: {transactions, metadata?} or a bare array.
ObjectBody(T, m) == [kind |-> "object", transactions |-> T, metadata |-> m]
ArrayBody(T) == [kind |-> "array", items |-> T]
Metadatas == {[present |-> FALSE, currency |-> Undefined],
              [present |-> TRUE, currency |-> Undefined],
              [present |-> TRUE, currency |-> "GBP"]}
\* data.metadata?.currency
MetadataCurrency(data) == IF data.metadata.present THEN data.metadata.currency ELSE Undefined
UploadBodies == {ObjectBody(T, m) : T \in {<<Tx1, Tx2>>, <<Tx2>>}, m \in Metadatas}
                    \cup {ArrayBody(T) : T \in {<<Tx1>>, <<Tx2>>}}

\* Values of VITE_API_BASE: not set, the deployed backend, a local backend.
ConfiguredBase == "https://moneylens.example"
Bases == {Undefined, ConfiguredBase, "http://localhost:8000"}

\* A URL is the pieces its template literal concatenates: base, version
\* segment, path.
Url(base, version, path) == <<base, version, path>>

\* The path of each analytics view.
ViewPath(v) ==
    CASE v = "summary" -> "/analytics/summary"
      [] v = "spending" -> "/analytics/spending"
      [] v = "trends" -> "/analytics/trends"
      [] v = "merchants" -> "/analytics/merchants"
      [] v = "transactions" -> "/analytics/transactions"

\* Snapshot texts.
SnapshotResponses == {"Spending is up.", "Spending is down."}
SnapshotFailedText == "Failed to load financial snapshot."

\* The tabs of the sidebar that show a panel.
Tabs == {"dashboard", "chat", "history"}

\* Chat texts.
ChatInputs == {"", "  ", "Summarize my spending"}
ChatResponses == {"You spent 3 on food."}
FallbackText == "I'm sorry, I'm having trouble connecting to the financial agent right now."

\* Longest message history the chat is driven to: next to the other
\* workflows, and on its own.
MaxMessages == 2
MaxChatMessages == 6

\* Most timers the snapshot card is driven to arm.
MaxSchedules == 3

\* ---------------------------------------------------------------- state

VARIABLES
    \* App component state
    isUploading, isLoadingData, error, fileInput,
    transactions, messages, currency, summary, spending, trends, merchants,
    \* fetchData invocations, one slot per caller
    rpc, rstat, rpos, rbody, rres,
    \* handleRefresh invocation
    xpc, xres, xbody,
    \* handleFileUpload invocation
    upc, ures, ubody,
    \* ChatInterface state, and the sendMessage invocations awaiting (in call
    \* order; each with the length of the history it was called on)
    input, isLoading, turns,
    \* the tab shown
    activeTab,
    \* import.meta.env.VITE_API_BASE
    VITE_API_BASE,
    \* SnapshotCard: pending timers, the timer of the last effect, the count
    \* of timers armed, the snapshot requests out (in sending order), its state
    timers, timer, scheduled, snapshots, content, loading,
    \* TransactionTable state
    search, filterType, sortOrder, currentPage

appVars == <<isUploading, isLoadingData, error, fileInput>>
dataVars == <<transactions, messages, currency, summary, spending, trends, merchants>>
fetchVars == <<rpc, rstat, rpos, rbody, rres>>
resetVars == <<xpc, xres, xbody>>
uploadVars == <<upc, ures, ubody>>
chatVars == <<input, isLoading, turns>>
navVars == <<activeTab>>
envVars == <<VITE_API_BASE>>
snapVars == <<timers, timer, scheduled, snapshots, content, loading>>
tableVars == <<search, filterType, sortOrder, currentPage>>
vars == <<appVars, dataVars, fetchVars, resetVars, uploadVars, chatVars, navVars, envVars, snapVars, tableVars>>

\* `${API_BASE}<path>`, API_BASE being `${import.meta.env.VITE_API_BASE}/api/v1`.
API_BASE(path) == Url(VITE_API_BASE, "/api/v1", path)

Slice(v) ==
    CASE v = "summary" -> summary
      [] v = "spending" -> spending
      [] v = "trends" -> trends
      [] v = "merchants" -> merchants
      [] v = "transactions" -> transactions

\* The state after construction, but for the transaction list.
InitRest ==
    /\ isUploading = FALSE
    /\ isLoadingData = TRUE
    /\ error = Null
    /\ fileInput = ""
    /\ messages = <<>>
    /\ currency = "USD"
    /\ summary = ZeroSummary
    /\ spending = EmptyMap
    /\ trends = EmptyMap
    /\ merchants = <<>>
    /\ rpc = [i \in Callers |-> "idle"]
    /\ rstat = [i \in Callers |-> [v \in ViewSet |-> "none"]]
    /\ rpos = [i \in Callers |-> 1]
    /\ rbody = [i \in Callers |-> Null]
    /\ rres = [i \in Callers |-> "none"]
    /\ xpc = "idle"
    /\ xres = "none"
    /\ xbody = Null
    /\ upc = "idle"
    /\ ures = "none"
    /\ ubody = Null
    /\ input = ""
    /\ isLoading = FALSE
    /\ turns = <<>>
    /\ activeTab = "dashboard"
    /\ timers = {}
    /\ timer = 0
    /\ scheduled = 0
    /\ snapshots = <<>>
    /\ content = ""
    /\ loading = TRUE
    /\ search = <<>>
    /\ filterType = "all"
    /\ sortOrder = "desc"
    /\ currentPage = 1

Init ==
    /\ transactions = <<>>
    /\ VITE_API_BASE = ConfiguredBase
    /\ InitRest

\* A queue of invocations but for the k-th, which has returned; all of them
\* once their component is unmounted, when its setters no longer do anything.
Without(q, k) == SubSeq(q, 1, k - 1) \o SubSeq(q, k + 1, Len(q))
Orphaned(q) == [k \in 1..Len(q) |-> [q[k] EXCEPT !.live = FALSE]]

\* ---------------------------------------------------------------- SnapshotCard

\* The body of the snapshot request; the request is out, awaiting its response.
SnapshotRequest(t) ==
    [id |-> t, pc |-> "posting", live |-> TRUE, body |-> "", url |-> API_BASE("/chat"),
     message |-> "Get snapshot", context |-> "TRANSACTIONS_PAGE", history |-> <<>>]

\* Mutant of SnapshotCard_Cleanup: the effect returns no cleanup.
SnapshotCard_Cleanup_None == timers

\* The cleanup of the effect: clearTimeout(timer); the timers still pending.
SnapshotCard_Cleanup == timers \ {timer}

\* The body of the effect: setTimeout(fetchSnapshot, 500) next to the timers
\* `pending`, the handle kept for the cleanup.
SnapshotCard_Effect(pending) ==
    /\ scheduled' = scheduled + 1
    /\ timer' = scheduled + 1
    /\ timers' = pending \cup {scheduled + 1}

\* A render of App after setTransactions: a mounted SnapshotCard sees a new
\* `transactions` array, so the cleanup of the last effect runs and then the
\* effect.
SnapshotCard_Rerun(changed) ==
    IF changed /\ activeTab = "history"
    THEN /\ SnapshotCard_Effect(SnapshotCard_Cleanup)
         /\ UNCHANGED <<snapshots, content, loading>>
    ELSE UNCHANGED snapVars

\* The card is mounted: fresh state, the first run of the effect.
SnapshotCard_Mount ==
    /\ SnapshotCard_Effect(timers)
    /\ content' = ""
    /\ loading' = TRUE
    /\ UNCHANGED snapshots

\* The card is unmounted: the cleanup runs; the requests still out belong to
\* an instance whose setters no longer do anything.
SnapshotCard_Unmount ==
    /\ timers' = SnapshotCard_Cleanup
    /\ snapshots' = Orphaned(snapshots)
    /\ UNCHANGED <<timer, scheduled, content, loading>>

\* The timer fires: fetchSnapshot up to its await.
fetchSnapshot_Call(t) ==
    /\ t \in timers
    /\ timers' = timers \ {t}
    /\ loading' = TRUE
    /\ snapshots' = Append(snapshots, SnapshotRequest(t))
    /\ UNCHANGED <<timer, scheduled, content>>
    /\ UNCHANGED <<appVars, dataVars, fetchVars, resetVars, uploadVars, chatVars, navVars, envVars, tableVars>>

\* The k-th snapshot request settles: a 2xx response goes on to await
\* res.json(), a non-2xx response sets nothing, a rejection sets the failure
\* text; `finally` clears the loading flag.
fetchSnapshot_Response(k, s) ==
    /\ k \in 1..Len(snapshots)
    /\ snapshots[k].pc = "posting"
    /\ IF s = "ok"
       THEN /\ \E b \in SnapshotResponses :
                 snapshots' = [snapshots EXCEPT ![k].pc = "json", ![k].body = b]
            /\ UNCHANGED <<content, loading>>
       ELSE /\ snapshots' = Without(snapshots, k)
            /\ content' = IF s = "rejected" /\ snapshots[k].live THEN SnapshotFailedText ELSE content
            /\ loading' = IF snapshots[k].live THEN FALSE ELSE loading
    /\ UNCHANGED <<timers, timer, scheduled>>
    /\ UNCHANGED <<appVars, dataVars, fetchVars, resetVars, uploadVars, chatVars, navVars, envVars, tableVars>>

\* The body of the k-th snapshot request is parsed: setContent(data.response).
fetchSnapshot_Apply(k) ==
    /\ k \in 1..Len(snapshots)
    /\ snapshots[k].pc = "json"
    /\ snapshots' = Without(snapshots, k)
    /\ content' = IF snapshots[k].live THEN snapshots[k].body ELSE content
    /\ loading' = IF snapshots[k].live THEN FALSE ELSE loading
    /\ UNCHANGED <<timers, timer, scheduled>>
    /\ UNCHANGED <<appVars, dataVars, fetchVars, resetVars, uploadVars, chatVars, navVars, envVars, tableVars>>

\* ---------------------------------------------------------------- fetchData

\* fetchData up to its first await: sets the loading flag and issues the five
\* requests.
fetchData_Call(i) ==
    /\ isLoadingData' = TRUE
    /\ rpc' = [rpc EXCEPT ![i] = "fetching"]
    /\ rstat' = [rstat EXCEPT ![i] = [v \in ViewSet |-> "pending"]]
    /\ rpos' = [rpos EXCEPT ![i] = 1]
    /\ rbody' = [rbody EXCEPT ![i] = Null]
    /\ rres' = [rres EXCEPT ![i] = "none"]

\* useEffect(() => { fetchData(); }, []) : once, after the first render.
Mount ==
    /\ rpc["mount"] = "idle"
    /\ fetchData_Call("mount")
    /\ UNCHANGED <<isUploading, error, fileInput, dataVars, resetVars, uploadVars, chatVars, navVars, envVars, snapVars, tableVars>>

\* Mutant of NextOk: the `if (xRes.ok)` guards are dropped, every view is read.
NextOk_Unguarded(st, k) ==
    IF k > Len(Views) THEN NoView ELSE k

\* Index of the first view at or after position k whose response is ok: the
\* `if (xRes.ok)` guards are passed without suspending until one holds.
RECURSIVE NextOk(_, _)
NextOk(st, k) ==
    IF k > Len(Views) THEN NoView
    ELSE IF st[Views[k]] = "ok" THEN k
    ELSE NextOk(st, k + 1)

\* The views invocation i has assigned so far.
Applied(i) == {Views[k] : k \in {j \in 1..Len(Views) : j < rpos[i] /\ rstat[i][Views[j]] = "ok"}}

\* Mutant of AllResolved: the join is fulfilled by the first resolved request
\* (Promise.race in place of Promise.all).
AllResolved_First(st) == \E v \in ViewSet : st[v] \in {"ok", "bad"}

\* Promise.all is fulfilled when all five requests have resolved.
AllResolved(st) == \A v \in ViewSet : st[v] \in {"ok", "bad"}

\* Mutant of fetchData_Return: no `finally`, the loading flag is left as it is.
fetchData_Return_NoFinally(i, result) ==
    /\ isLoadingData' = isLoadingData
    /\ rpc' = [rpc EXCEPT ![i] = "done"]
    /\ rstat' = [rstat EXCEPT ![i] = [v \in ViewSet |-> "none"]]
    /\ rpos' = [rpos EXCEPT ![i] = 1]
    /\ rbody' = [rbody EXCEPT ![i] = Null]
    /\ rres' = [rres EXCEPT ![i] = result]

\* The finally block and the return of fetchData: the loading flag is
\* cleared, the locals of the invocation are gone.
fetchData_Return(i, result) ==
    /\ isLoadingData' = FALSE
    /\ rpc' = [rpc EXCEPT ![i] = "done"]
    /\ rstat' = [rstat EXCEPT ![i] = [v \in ViewSet |-> "none"]]
    /\ rpos' = [rpos EXCEPT ![i] = 1]
    /\ rbody' = [rbody EXCEPT ![i] = Null]
    /\ rres' = [rres EXCEPT ![i] = result]

\* The code from position k on with responses st, up to the next await or
\* to the end of the call: either res.json() of the next ok view is awaited,
\* or the call returns.
fetchData_Continue(i, st, k) ==
    LET n == NextOk(st, k) IN
    IF n = NoView
    THEN fetchData_Return(i, "returned")
    ELSE /\ rpc' = [rpc EXCEPT ![i] = "json"]
         /\ rstat' = [rstat EXCEPT ![i] = st]
         /\ rpos' = [rpos EXCEPT ![i] = n]
         /\ \E b \in ViewBodies(Views[n]) : rbody' = [rbody EXCEPT ![i] = b]
         /\ UNCHANGED <<rres, isLoadingData>>

\* Promise.all rejects as soon as one request rejects: catch logs the error
\* and the call returns, nothing is assigned.
fetchData_Rejected(i) ==
    fetchData_Return(i, "returned")

\* The network settles one of the five requests with a 2xx response, a
\* non-2xx response, or a rejection (transport failure); the continuation of
\* `await Promise.all` runs in the same turn when this settles it.
Respond(i, v, s) ==
    /\ rpc[i] = "fetching"
    /\ rstat[i][v] = "pending"
    /\ LET st == [rstat[i] EXCEPT ![v] = s] IN
       IF s = "rejected" THEN fetchData_Rejected(i)
       ELSE IF AllResolved(st) THEN fetchData_Continue(i, st, 1)
       ELSE /\ rstat' = [rstat EXCEPT ![i] = st]
            /\ UNCHANGED <<rpc, rpos, rbody, rres, isLoadingData>>
    /\ UNCHANGED <<isUploading, error, fileInput, dataVars, resetVars, uploadVars, chatVars, navVars, envVars, snapVars, tableVars>>

\* Mutant of fetchData_Apply: the currency is read from the first element
\* whether it carries a tag or not.
fetchData_Apply_AnyTag(i) ==
    /\ rpc[i] = "json"
    /\ LET v == Views[rpos[i]]
           b == rbody[i] IN
       /\ summary' = IF v = "summary" THEN b ELSE summary
       /\ spending' = IF v = "spending" THEN b ELSE spending
       /\ trends' = IF v = "trends" THEN b ELSE trends
       /\ merchants' = IF v = "merchants" THEN b ELSE merchants
       /\ transactions' = IF v = "transactions" THEN b ELSE transactions
       /\ currency' = IF v = "transactions" /\ Len(b) > 0
                      THEN b[1].currency ELSE currency
    /\ SnapshotCard_Rerun(Views[rpos[i]] = "transactions")
    /\ fetchData_Continue(i, rstat[i], rpos[i] + 1)
    /\ UNCHANGED <<isUploading, error, fileInput, messages, resetVars, uploadVars, chatVars, navVars, envVars, tableVars>>

\* `setX(await xRes.json())` resumes: the view at rpos is assigned the body,
\* the transaction list also sets the currency from its first element.
fetchData_Apply(i) ==
    /\ rpc[i] = "json"
    /\ LET v == Views[rpos[i]]
           b == rbody[i] IN
       /\ summary' = IF v = "summary" THEN b ELSE summary
       /\ spending' = IF v = "spending" THEN b ELSE spending
       /\ trends' = IF v = "trends" THEN b ELSE trends
       /\ merchants' = IF v = "merchants" THEN b ELSE merchants
       /\ transactions' = IF v = "transactions" THEN b ELSE transactions
       /\ currency' = IF v = "transactions" /\ Len(b) > 0 /\ Truthy(b[1].currency)
                      THEN b[1].currency ELSE currency
    /\ SnapshotCard_Rerun(Views[rpos[i]] = "transactions")
    /\ fetchData_Continue(i, rstat[i], rpos[i] + 1)
    /\ UNCHANGED <<isUploading, error, fileInput, messages, resetVars, uploadVars, chatVars, navVars, envVars, tableVars>>

\* ---------------------------------------------------------------- handleRefresh

\* handleRefresh up to its await: loading flag, error cleared, POST /analytics/reset.
\* One invocation is followed at a time.
handleRefresh_Call ==
    /\ xpc \in {"idle", "done"}
    /\ isLoadingData' = TRUE
    /\ error' = Null
    /\ xpc' = "posting"
    /\ xres' = "none"
    /\ xbody' = Null
    /\ UNCHANGED <<isUploading, fileInput, dataVars, fetchVars, uploadVars, chatVars, navVars, envVars, snapVars, tableVars>>

\* Mutant of handleRefresh_Response: the local state is cleared before the
\* outcome of the request is looked at.
handleRefresh_Response_ClearsFirst(s, msg) ==
    /\ xpc = "posting"
    /\ xres' = s
    /\ transactions' = <<>>
    /\ IF s = "ok"
       THEN /\ xpc' = "json"
            /\ \E b \in SummaryBodies : xbody' = b
            /\ UNCHANGED <<isLoadingData, error>>
       ELSE /\ xpc' = "done"
            /\ error' = IF s = "bad" THEN "Failed to reset dashboard data" ELSE msg
            /\ isLoadingData' = FALSE
            /\ UNCHANGED xbody
    /\ UNCHANGED <<isUploading, fileInput, messages, currency, summary, spending, trends, merchants, fetchVars, uploadVars, chatVars, navVars, envVars, snapVars, tableVars>>

\* The reset request settles.  A 2xx response goes on to await res.json(); a
\* non-2xx response throws the fixed Error, a rejection throws the transport
\* error: catch stores err.message, finally clears the loading flag.
handleRefresh_Response(s, msg) ==
    /\ xpc = "posting"
    /\ xres' = s
    /\ IF s = "ok"
       THEN /\ xpc' = "json"
            /\ \E b \in SummaryBodies : xbody' = b
            /\ UNCHANGED <<isLoadingData, error>>
       ELSE /\ xpc' = "done"
            /\ error' = IF s = "bad" THEN "Failed to reset dashboard data" ELSE msg
            /\ isLoadingData' = FALSE
            /\ UNCHANGED xbody
    /\ UNCHANGED <<isUploading, fileInput, dataVars, fetchVars, uploadVars, chatVars, navVars, envVars, snapVars, tableVars>>

\* Mutant of handleRefresh_Apply: the summary is set to a zero object built
\* by the client.
handleRefresh_Apply_LocalZero ==
    /\ xpc = "json"
    /\ summary' = ZeroSummary
    /\ transactions' = <<>>
    /\ messages' = <<>>
    /\ spending' = EmptyMap
    /\ trends' = EmptyMap
    /\ currency' = "USD"
    /\ isLoadingData' = FALSE
    /\ xpc' = "done"
    /\ UNCHANGED <<isUploading, error, fileInput, merchants, fetchVars, xres, xbody, uploadVars, chatVars, navVars, envVars, snapVars, tableVars>>

\* The reset body is parsed: summary from the server, the other slices cleared.
handleRefresh_Apply ==
    /\ xpc = "json"
    /\ summary' = xbody
    /\ transactions' = <<>>
    /\ messages' = <<>>
    /\ spending' = EmptyMap
    /\ trends' = EmptyMap
    /\ currency' = "USD"
    /\ isLoadingData' = FALSE
    /\ xpc' = "done"
    /\ SnapshotCard_Rerun(TRUE)
    /\ UNCHANGED <<isUploading, error, fileInput, merchants, fetchVars, xres, xbody, uploadVars, chatVars, navVars, envVars, tableVars>>

\* ---------------------------------------------------------------- handleFileUpload

NoFile == ""
Files == {NoFile, "statement.csv"}

\* The message of the Error thrown on a non-2xx upload response.
UploadErrorMessage(errData) ==
    IF Truthy(errData.detail) THEN errData.detail ELSE "Upload failed"

\* Mutant of handleFileUpload_Finally: the file input keeps its file.
handleFileUpload_Finally_KeepsFile ==
    /\ isUploading' = FALSE
    /\ fileInput' = fileInput
    /\ upc' = "done"

\* The finally block of handleFileUpload.
handleFileUpload_Finally ==
    /\ isUploading' = FALSE
    /\ fileInput' = ""
    /\ upc' = "done"

\* The file input changes (the upload button is disabled while uploading):
\* without a file the handler returns, otherwise it posts the file.
handleFileUpload_Call(file) ==
    /\ ~isUploading
    /\ upc \in {"idle", "done"}
    /\ file # NoFile
    /\ isUploading' = TRUE
    /\ error' = Null
    /\ fileInput' = file
    /\ upc' = "posting"
    /\ ures' = "none"
    /\ ubody' = Null
    /\ UNCHANGED <<isLoadingData, dataVars, fetchVars, resetVars, chatVars, navVars, envVars, snapVars, tableVars>>

\* The upload request settles.  Both a 2xx and a non-2xx response go on to
\* await response.json(); a rejection goes to catch and finally.
handleFileUpload_Response(s, msg) ==
    /\ upc = "posting"
    /\ ures' = s
    /\ CASE s = "ok" ->
              /\ upc' = "json"
              /\ \E b \in UploadBodies : ubody' = b
              /\ UNCHANGED <<isUploading, error, fileInput>>
         [] s = "bad" ->
              /\ upc' = "json"
              /\ \E b \in ErrBodies : ubody' = b
              /\ UNCHANGED <<isUploading, error, fileInput>>
         [] s = "rejected" ->
              /\ error' = msg
              /\ handleFileUpload_Finally
              /\ UNCHANGED ubody
    /\ UNCHANGED <<isLoadingData, dataVars, fetchVars, resetVars, chatVars, navVars, envVars, snapVars, tableVars>>

\* Mutant of handleFileUpload_Apply: metadata.currency is not read.
handleFileUpload_Apply_NoMetadata ==
    /\ upc = "json"
    /\ ures = "ok"
    /\ transactions' = IF ubody.kind = "object" THEN ubody.transactions ELSE ubody.items
    /\ currency' = currency
    /\ fetchData_Call("upload")
    /\ upc' = "refreshing"
    /\ UNCHANGED <<isUploading, error, fileInput, messages, summary, spending, trends, merchants, resetVars, ures, ubody, chatVars, navVars, envVars, snapVars, tableVars>>

\* Mutant of handleFileUpload_Apply: the array branch takes the currency of
\* the first element.
handleFileUpload_Apply_ArrayCurrency ==
    /\ upc = "json"
    /\ ures = "ok"
    /\ IF ubody.kind = "object"
       THEN /\ transactions' = ubody.transactions
            /\ currency' = IF Truthy(MetadataCurrency(ubody))
                           THEN MetadataCurrency(ubody) ELSE currency
       ELSE /\ transactions' = ubody.items
            /\ currency' = IF Truthy(ubody.items[1].currency)
                           THEN ubody.items[1].currency ELSE currency
    /\ fetchData_Call("upload")
    /\ upc' = "refreshing"
    /\ UNCHANGED <<isUploading, error, fileInput, messages, summary, spending, trends, merchants, resetVars, ures, ubody, chatVars, navVars, envVars, snapVars, tableVars>>

\* The body of a 2xx upload is parsed: the list is replaced, the currency
\* taken from metadata when present, and fetchData() is called and awaited.
handleFileUpload_Apply ==
    /\ upc = "json"
    /\ ures = "ok"
    /\ IF ubody.kind = "object"
       THEN /\ transactions' = ubody.transactions
            /\ currency' = IF Truthy(MetadataCurrency(ubody))
                           THEN MetadataCurrency(ubody) ELSE currency
       ELSE /\ transactions' = ubody.items
            /\ currency' = currency
    /\ fetchData_Call("upload")
    /\ upc' = "refreshing"
    /\ SnapshotCard_Rerun(TRUE)
    /\ UNCHANGED <<isUploading, error, fileInput, messages, summary, spending, trends, merchants, resetVars, ures, ubody, chatVars, navVars, envVars, tableVars>>

\* Mutant of handleFileUpload_Throw: fetchData() is called in the finally
\* block, on the failure path too.
handleFileUpload_Throw_Refreshes ==
    /\ upc = "json"
    /\ ures = "bad"
    /\ error' = UploadErrorMessage(ubody)
    /\ handleFileUpload_Finally
    /\ fetchData_Call("upload")
    /\ UNCHANGED <<dataVars, resetVars, ures, ubody, chatVars, navVars, envVars, snapVars, tableVars>>

\* The body of a non-2xx upload is parsed and the Error is thrown: catch
\* stores its message, finally runs.
handleFileUpload_Throw ==
    /\ upc = "json"
    /\ ures = "bad"
    /\ error' = UploadErrorMessage(ubody)
    /\ handleFileUpload_Finally
    /\ UNCHANGED <<isLoadingData, dataVars, fetchVars, resetVars, ures, ubody, chatVars, navVars, envVars, snapVars, tableVars>>

\* `await fetchData()` resumes: a rejection of fetchData would go to catch,
\* then finally runs.
handleFileUpload_Resume ==
    /\ upc = "refreshing"
    /\ rpc["upload"] = "done"
    /\ error' = IF rres["upload"] = "threw" THEN "Failed to fetch" ELSE error
    /\ handleFileUpload_Finally
    /\ UNCHANGED <<isLoadingData, dataVars, fetchVars, resetVars, ures, ubody, chatVars, navVars, envVars, snapVars, tableVars>>

\* ---------------------------------------------------------------- sendMessage

\* String.prototype.trim on the chat inputs.
Trim(s) == IF s \in {"", "  "} THEN "" ELSE s

\* The input box changes.
setInput(text) ==
    /\ activeTab = "chat"
    /\ input' = text
    /\ UNCHANGED <<appVars, dataVars, fetchVars, resetVars, uploadVars, isLoading, turns, navVars, envVars, snapVars, tableVars>>

\* Mutant of sendMessage_Guard: the turn in flight is not looked at.
sendMessage_Guard_NoReentrancy == Trim(input) # ""

\* `if (!input.trim() || isLoading) return` passes.
sendMessage_Guard == Trim(input) # "" /\ ~isLoading

\* The URL of the chat request, written out in the panel.
sendMessage_Url == Url("http://localhost:8000", "/api/v1", "/chat/")

\* Mutant of requestHistory: the roles are sent as they are kept.
requestHistory_Raw(m) == m

\* `messages.map(m => ({ role: m.role === 'bot' ? 'assistant' : 'user',
\* content: m.content }))` on the history the panel was rendered with.
requestHistory(m) ==
    [k \in 1..Len(m) |->
        [role |-> IF m[k].role = "bot" THEN "assistant" ELSE "user", content |-> m[k].content]]

\* sendMessage up to its await: the guard, the input cleared, the optimistic
\* append of the user message, the loading flag, POST /chat.
sendMessage_Call ==
    /\ activeTab = "chat"
    /\ sendMessage_Guard
    /\ input' = ""
    /\ messages' = Append(messages, [role |-> "user", content |-> Trim(input)])
    /\ isLoading' = TRUE
    /\ turns' = Append(turns, [pc |-> "posting", res |-> "none", live |-> TRUE, start |-> Len(messages),
                                url |-> sendMessage_Url,
                                body |-> [message |-> Trim(input),
                                          history |-> requestHistory(messages),
                                          context |-> "FINANCIAL_AI_PAGE"]])
    /\ UNCHANGED <<appVars, transactions, currency, summary, spending, trends, merchants, fetchVars, resetVars, uploadVars, navVars, envVars, snapVars, tableVars>>

\* sendMessage returns at its guard: nothing is set.
sendMessage_Ignored ==
    /\ activeTab = "chat"
    /\ ~sendMessage_Guard
    /\ UNCHANGED vars

\* Mutant of sendMessage_Append: the reply replaces the history.
sendMessage_Append_Replaces(m, text) == <<[role |-> "bot", content |-> text]>>

\* `setMessages(prev => [...prev, { role: 'bot', content }])`.
sendMessage_Append(m, text) == Append(m, [role |-> "bot", content |-> text])

\* Mutant of sendMessage_Finally: the loading flag is left set.
sendMessage_Finally_Skipped(k) == isLoading' = isLoading

\* `finally { setIsLoading(false) }` of the k-th turn, on the panel that sent it.
sendMessage_Finally(k) == isLoading' = IF turns[k].live THEN FALSE ELSE isLoading

\* Mutant of sendMessage_Response: a failed request is not answered with the
\* fallback message.
sendMessage_Response_Silent(k, s) ==
    /\ k \in 1..Len(turns)
    /\ turns[k].pc = "posting"
    /\ IF s = "ok"
       THEN /\ \E t \in ChatResponses : turns' = [turns EXCEPT ![k].pc = "json", ![k].res = t]
            /\ UNCHANGED <<messages, isLoading>>
       ELSE /\ turns' = Without(turns, k)
            /\ UNCHANGED messages
            /\ sendMessage_Finally(k)
    /\ UNCHANGED <<appVars, transactions, currency, summary, spending, trends, merchants, fetchVars, resetVars, uploadVars, input, navVars, envVars, snapVars, tableVars>>

\* The request of the k-th turn settles: a 2xx response goes on to await
\* response.json(), a non-2xx response or a rejection appends the fallback
\* message.
sendMessage_Response(k, s) ==
    /\ k \in 1..Len(turns)
    /\ turns[k].pc = "posting"
    /\ IF s = "ok"
       THEN /\ \E t \in ChatResponses : turns' = [turns EXCEPT ![k].pc = "json", ![k].res = t]
            /\ UNCHANGED <<messages, isLoading>>
       ELSE /\ turns' = Without(turns, k)
            /\ messages' = sendMessage_Append(messages, FallbackText)
            /\ sendMessage_Finally(k)
    /\ UNCHANGED <<appVars, transactions, currency, summary, spending, trends, merchants, fetchVars, resetVars, uploadVars, input, navVars, envVars, snapVars, tableVars>>

\* The body of the k-th turn is parsed: the bot message is appended.
sendMessage_Apply(k) ==
    /\ k \in 1..Len(turns)
    /\ turns[k].pc = "json"
    /\ turns' = Without(turns, k)
    /\ messages' = sendMessage_Append(messages, turns[k].res)
    /\ sendMessage_Finally(k)
    /\ UNCHANGED <<appVars, transactions, currency, summary, spending, trends, merchants, fetchVars, resetVars, uploadVars, input, navVars, envVars, snapVars, tableVars>>

\* ---------------------------------------------------------------- TransactionTable

\* String.prototype.toLowerCase, character by character.
UpperCase == <<"A", "B", "C", "D", "E", "F", "G", "H", "I", "J", "K", "L", "M",
               "N", "O", "P", "Q", "R", "S", "T", "U", "V", "W", "X", "Y", "Z">>
LowerCase == <<"a", "b", "c", "d", "e", "f", "g", "h", "i", "j", "k", "l", "m",
               "n", "o", "p", "q", "r", "s", "t", "u", "v", "w", "x", "y", "z">>
toLowerCase(text) ==
    [k \in 1..Len(text) |->
        IF \E i \in 1..Len(UpperCase) : UpperCase[i] = text[k]
        THEN LowerCase[CHOOSE i \in 1..Len(UpperCase) : UpperCase[i] = text[k]]
        ELSE text[k]]

\* String.prototype.includes: `part` occurs in `text` at some position.
includes(text, part) ==
    \E i \in 0..(Len(text) - Len(part)) : SubSeq(text, i + 1, i + Len(part)) = part

\* new Date(date).getTime() of an ISO date, counted in days since 1970-01-01
\* (the code counts the same instants in milliseconds).
IsLeapYear(y) == (y % 4 = 0 /\ y % 100 # 0) \/ y % 400 = 0
LeapDaysBefore(y) == ((y - 1) \div 4) - ((y - 1) \div 100) + ((y - 1) \div 400)
DaysBeforeMonth == <<0, 31, 59, 90, 120, 151, 181, 212, 243, 273, 304, 334>>
getTime(date) ==
    365 * (date[1] - 1970) + LeapDaysBefore(date[1]) - LeapDaysBefore(1970)
        + DaysBeforeMonth[date[2]]
        + (IF date[2] > 2 /\ IsLeapYear(date[1]) THEN 1 ELSE 0)
        + date[3] - 1

\* The predicate of transactions.filter(...).
matchesSearch(t, s) ==
    \/ includes(toLowerCase(t.description), toLowerCase(s))
    \/ includes(IF t.category.present THEN toLowerCase(t.category.text) ELSE <<>>, toLowerCase(s))
matchesType(t, f) == f = "all" \/ t.type = f
filter(L, s, f) ==
    LET keep(t) == matchesSearch(t, s) /\ matchesType(t, f) IN SelectSeq(L, keep)

\* Mutant of compare: the sort order is not looked at.
compare_Descending(a, b, order) == getTime(b.date) - getTime(a.date)

\* The comparator of result.sort(...).
compare(a, b, order) ==
    IF order = "desc" THEN getTime(b.date) - getTime(a.date)
                      ELSE getTime(a.date) - getTime(b.date)

\* Array.prototype.sort, which is stable: each element goes behind the
\* elements before it that the comparator does not put after it.
RECURSIVE insert(_, _, _)
insert(sorted, x, order) ==
    IF sorted = <<>> THEN <<x>>
    ELSE IF compare(sorted[Len(sorted)], x, order) > 0
         THEN Append(insert(SubSeq(sorted, 1, Len(sorted) - 1), x, order), sorted[Len(sorted)])
         ELSE Append(sorted, x)
RECURSIVE sort(_, _)
sort(L, order) ==
    IF L = <<>> THEN <<>>
    ELSE insert(sort(SubSeq(L, 1, Len(L) - 1), order), L[Len(L)], order)

\* Mutant of propAfterRender: the array of the prop is sorted in place.
propAfterRender_InPlace(L, order) == sort(L, order)

\* The array of the `transactions` prop once the memo has run: filter builds
\* a new array (`result`) and it is that array which sort orders in place.
propAfterRender(L, order) == L

\* Mutant of render: no type filter.
render_AllTypes(L, s, f, order) == sort(filter(L, s, "all"), order)

\* The memo filteredTransactions.
render(L, s, f, order) == sort(filter(L, s, f), order)

filteredTransactions == render(transactions, search, filterType, sortOrder)

\* The props of the mounted table: limit on the dashboard, pageSize on the
\* history tab; a prop that is not passed is falsy.
DashboardLimit == 10
HistoryPageSize == 25
limit == IF activeTab = "dashboard" THEN DashboardLimit ELSE 0
pageSize == IF activeTab = "history" THEN HistoryPageSize ELSE 0
TableMounted == activeTab \in {"dashboard", "history"}

\* Array.prototype.slice(from, to) for 0 <= from.
slice(L, from, to) == SubSeq(L, from + 1, IF to < Len(L) THEN to ELSE Len(L))

\* The memo paginatedTransactions.
paginate(view, page) ==
    IF limit # 0 THEN slice(view, 0, limit)
    ELSE IF pageSize # 0 THEN slice(view, (page - 1) * pageSize, (page - 1) * pageSize + pageSize)
    ELSE view

paginatedTransactions == paginate(filteredTransactions, currentPage)

\* Math.ceil(filteredTransactions.length / pageSize), or 1 without pageSize.
totalPages ==
    IF pageSize # 0 THEN (Len(filteredTransactions) + pageSize - 1) \div pageSize ELSE 1

\* The pager is rendered.
PagerShown == pageSize # 0 /\ Len(filteredTransactions) > pageSize

\* The table renders after its state has changed: the memo is recomputed.
TransactionTable_Render ==
    /\ transactions' = propAfterRender(transactions, sortOrder')
    /\ UNCHANGED <<appVars, messages, currency, summary, spending, trends, merchants, fetchVars, resetVars, uploadVars, chatVars, navVars, envVars, snapVars>>

setSearch(text) ==
    /\ TableMounted
    /\ search' = text
    /\ UNCHANGED <<filterType, sortOrder, currentPage>>
    /\ TransactionTable_Render

setFilterType(type) ==
    /\ TableMounted
    /\ filterType' = type
    /\ UNCHANGED <<search, sortOrder, currentPage>>
    /\ TransactionTable_Render

\* The button that clears search and filter, shown when either is set.
clearFilters ==
    /\ TableMounted
    /\ search # <<>> \/ filterType # "all"
    /\ search' = <<>>
    /\ filterType' = "all"
    /\ UNCHANGED <<sortOrder, currentPage>>
    /\ TransactionTable_Render

toggleSort ==
    /\ TableMounted
    /\ sortOrder' = IF sortOrder = "desc" THEN "asc" ELSE "desc"
    /\ UNCHANGED <<search, filterType, currentPage>>
    /\ TransactionTable_Render

\* Mutant of handleNextPage: no test against the page count.
handleNextPage_Unclamped ==
    /\ PagerShown
    /\ currentPage' = currentPage + 1
    /\ UNCHANGED <<search, filterType, sortOrder>>
    /\ TransactionTable_Render

\* The handlers of the pager (the handler tests the page itself, whether or
\* not its button is disabled).
handleNextPage ==
    /\ PagerShown
    /\ currentPage' = IF currentPage < totalPages THEN currentPage + 1 ELSE currentPage
    /\ UNCHANGED <<search, filterType, sortOrder>>
    /\ TransactionTable_Render

handlePrevPage ==
    /\ PagerShown
    /\ currentPage' = IF currentPage > 1 THEN currentPage - 1 ELSE currentPage
    /\ UNCHANGED <<search, filterType, sortOrder>>
    /\ TransactionTable_Render

\* ---------------------------------------------------------------- tabs

\* A tab of the sidebar is chosen: the panel of the old tab is unmounted and
\* the panel of the new one mounted, each component starting from its
\* initial state (the chat panel: input and loading flag; the table: search,
\* filter, order and page; the snapshot card on the history tab).
setActiveTab(tab) ==
    /\ tab # activeTab
    /\ activeTab' = tab
    /\ input' = ""
    /\ isLoading' = FALSE
    /\ search' = <<>>
    /\ filterType' = "all"
    /\ sortOrder' = "desc"
    /\ currentPage' = 1
    /\ IF activeTab = "history" THEN SnapshotCard_Unmount
       ELSE IF tab = "history" THEN SnapshotCard_Mount
       ELSE UNCHANGED snapVars
    /\ turns' = IF activeTab = "chat" THEN Orphaned(turns) ELSE turns
    /\ transactions' = IF tab \in {"dashboard", "history"}
                       THEN propAfterRender(transactions, "desc")
                       ELSE transactions
    /\ UNCHANGED <<appVars, messages, currency, summary, spending, trends, merchants, fetchVars, resetVars, uploadVars, envVars>>

\* ---------------------------------------------------------------- specification

Statuses == {"ok", "bad", "rejected"}

\* The handlers share the App state but keep their own locals, so each
\* workflow is explored with the handlers that feed it; Next is all of them.

\* The fetch coordinator with the upload workflow that re-runs it; the user
\* picks a file once the initial load has returned.
NextSync ==
    \/ Mount
    \/ \E i \in Callers, v \in ViewSet, s \in Statuses : Respond(i, v, s)
    \/ \E i \in Callers : fetchData_Apply(i)
    \/ rpc["mount"] = "done" /\ \E file \in Files : handleFileUpload_Call(file)
    \/ \E s \in Statuses, msg \in TransportMessages : handleFileUpload_Response(s, msg)
    \/ handleFileUpload_Apply
    \/ handleFileUpload_Throw
    \/ handleFileUpload_Resume

SpecSync == Init /\ [][NextSync]_vars

\* The reset workflow with the initial load and the chat that fill the state;
\* the user changes tabs between turns.
NextReset ==
    \/ Mount
    \/ \E v \in ViewSet, s \in Statuses : Respond("mount", v, s)
    \/ fetchData_Apply("mount")
    \/ handleRefresh_Call
    \/ \E s \in Statuses, msg \in TransportMessages : handleRefresh_Response(s, msg)
    \/ handleRefresh_Apply
    \/ turns = <<>> /\ \E tab \in {"dashboard", "chat"} : setActiveTab(tab)
    \/ setInput("Summarize my spending")
    \/ Len(messages) + 2 <= MaxMessages /\ sendMessage_Call
    \/ \E s \in Statuses : sendMessage_Response(1, s)
    \/ sendMessage_Apply(1)

SpecReset == Init /\ [][NextReset]_vars

\* The chat panel, opened and closed at any time, also during a turn.
NextChat ==
    \/ \E tab \in {"dashboard", "chat"} : setActiveTab(tab)
    \/ \E text \in ChatInputs : setInput(text)
    \/ Len(messages) + 2 <= MaxChatMessages /\ sendMessage_Call
    \/ sendMessage_Ignored
    \/ \E k \in 1..MaxChatMessages, s \in Statuses : sendMessage_Response(k, s)
    \/ \E k \in 1..MaxChatMessages : sendMessage_Apply(k)

SpecChat == Init /\ [][NextChat]_vars

\* The chat panel, once opened, with the reset that clears the history.
NextChatReset ==
    \/ setActiveTab("chat")
    \/ \E text \in ChatInputs : setInput(text)
    \/ Len(messages) + 2 <= MaxChatMessages /\ sendMessage_Call
    \/ sendMessage_Ignored
    \/ \E s \in Statuses : sendMessage_Response(1, s)
    \/ sendMessage_Apply(1)
    \/ handleRefresh_Call
    \/ \E s \in Statuses, msg \in TransportMessages : handleRefresh_Response(s, msg)
    \/ handleRefresh_Apply

SpecChatReset == Init /\ [][NextChatReset]_vars

\* The snapshot card under the reset, which replaces the transaction list.
NextSnapshot ==
    \/ \E tab \in {"dashboard", "history"} : scheduled < MaxSchedules /\ setActiveTab(tab)
    \/ handleRefresh_Call
    \/ \E s \in Statuses, msg \in TransportMessages : handleRefresh_Response(s, msg)
    \/ scheduled < MaxSchedules /\ handleRefresh_Apply
    \/ \E t \in timers : fetchSnapshot_Call(t)
    \/ \E k \in 1..MaxSchedules, s \in Statuses : fetchSnapshot_Response(k, s)
    \/ \E k \in 1..MaxSchedules : fetchSnapshot_Apply(k)

SpecSnapshot == Init /\ [][NextSnapshot]_vars

\* The table over a list it is given: on the dashboard, then on the history tab.
InitTable ==
    /\ transactions \in TableLists
    /\ VITE_API_BASE = ConfiguredBase
    /\ InitRest

NextTable ==
    \/ setActiveTab("history")
    \/ \E text \in Searches : setSearch(text)
    \/ \E type \in FilterTypes : setFilterType(type)
    \/ clearFilters
    \/ toggleSort
    \/ handleNextPage
    \/ handlePrevPage

SpecTable == InitTable /\ [][NextTable]_vars

\* The URLs of the requests of App.
fetchData_Url(v) == API_BASE(ViewPath(v))
handleRefresh_Url == API_BASE("/analytics/reset")
handleFileUpload_Url == API_BASE("/upload")

\* The URLs of the requests that are out.
RequestsOut ==
    {fetchData_Url(v) : v \in {w \in ViewSet : \E i \in Callers : rpc[i] = "fetching" /\ rstat[i][w] = "pending"}}
        \cup (IF xpc = "posting" THEN {handleRefresh_Url} ELSE {})
        \cup (IF upc = "posting" THEN {handleFileUpload_Url} ELSE {})
        \cup {turns[k].url : k \in {j \in 1..Len(turns) : turns[j].pc = "posting"}}
        \cup {snapshots[k].url : k \in {j \in 1..Len(snapshots) : snapshots[j].pc = "posting"}}

\* The module of App is evaluated: without VITE_API_BASE it throws and
\* nothing is rendered.
Started == Truthy(VITE_API_BASE)

\* Every kind of request under every configuration; the backend answers
\* with failures, which end each call at once.
InitUrls ==
    /\ transactions = <<>>
    /\ VITE_API_BASE \in Bases
    /\ InitRest

NextUrls ==
    \/ Started /\ Mount
    \/ \E v \in ViewSet : Started /\ Respond("mount", v, "rejected")
    \/ Started /\ handleRefresh_Call
    \/ \E msg \in TransportMessages : Started /\ handleRefresh_Response("rejected", msg)
    \/ \E file \in Files : Started /\ handleFileUpload_Call(file)
    \/ \E msg \in TransportMessages : Started /\ handleFileUpload_Response("rejected", msg)
    \/ \E tab \in Tabs : Started /\ scheduled < MaxSchedules /\ turns = <<>> /\ setActiveTab(tab)
    \/ Started /\ setInput("Summarize my spending")
    \/ Started /\ Len(messages) + 2 <= MaxMessages /\ sendMessage_Call
    \/ Started /\ sendMessage_Response(1, "bad")
    \/ \E t \in timers : Started /\ fetchSnapshot_Call(t)
    \/ \E k \in 1..MaxSchedules : Started /\ fetchSnapshot_Response(k, "bad")

SpecUrls == InitUrls /\ [][NextUrls]_vars

\* The initial load and the reset button: React runs the mount effect before
\* it handles a click, so the load has started when a reset is issued, and it
\* is the only load.
NextRace ==
    \/ Mount
    \/ \E v \in ViewSet, s \in Statuses : Respond("mount", v, s)
    \/ fetchData_Apply("mount")
    \/ rpc["mount"] # "idle" /\ handleRefresh_Call
    \/ \E s \in Statuses, msg \in TransportMessages : handleRefresh_Response(s, msg)
    \/ handleRefresh_Apply

SpecRace == Init /\ [][NextRace]_vars

Next ==
    \/ NextSync
    \/ NextReset
    \/ NextChat
    \/ NextChatReset
    \/ NextSnapshot
    \/ NextTable
    \/ NextUrls
    \/ NextRace

Spec == Init /\ [][Next]_vars

\* ---------------------------------------------------------------- steps

\* Invocation i of fetchData assigns the body it awaited.
ApplyStep(i) == rpc[i] = "json" /\ (rpc'[i] # rpc[i] \/ rpos'[i] # rpos[i])

\* A request of invocation i settles.
SettleStep(i) == rpc[i] = "fetching" /\ (rpc'[i] # rpc[i] \/ rstat'[i] # rstat[i])

\* Invocation i returns to its caller.
ReturnStep(i) == rpc[i] \in {"fetching", "json"} /\ rpc'[i] = "done"

\* Positions of the views of responses st that are ok and lie after position k.
OkAfter(st, k) == {j \in 1..Len(Views) : j > k /\ st[Views[j]] = "ok"}

\* The value of view v's slice after the step.
SliceNext(v) ==
    CASE v = "summary" -> summary'
      [] v = "spending" -> spending'
      [] v = "trends" -> trends'
      [] v = "merchants" -> merchants'
      [] v = "transactions" -> transactions'

SlicesUnchanged == UNCHANGED <<summary, spending, trends, merchants, transactions>>

\* ---------------------------------------------------------------- C1

\* C1: when all five requests of a refresh resolve, every view whose response
\* is 2xx is assigned that response's body (none is skipped), every view whose
\* response is not 2xx keeps its value, and the refresh returns without
\* throwing.
C1_PartialFailure ==
    [][\A i \in Callers :
        /\ ApplyStep(i) =>
              LET v == Views[rpos[i]] IN
              /\ rstat[i][v] = "ok"
              /\ SliceNext(v) = rbody[i]
              /\ \A w \in ViewSet \ {v} : SliceNext(w) = Slice(w)
              /\ IF OkAfter(rstat[i], rpos[i]) = {}
                 THEN rpc'[i] = "done"
                 ELSE /\ rpc'[i] = "json"
                      /\ rpos'[i] \in OkAfter(rstat[i], rpos[i])
                      /\ \A j \in OkAfter(rstat[i], rpos[i]) : rpos'[i] <= j
        /\ SettleStep(i) =>
              /\ SlicesUnchanged
              /\ rpc'[i] = "json" =>
                    /\ \A v \in ViewSet : rstat'[i][v] \in {"ok", "bad"}
                    /\ rpos'[i] \in OkAfter(rstat'[i], 0)
                    /\ \A j \in OkAfter(rstat'[i], 0) : rpos'[i] <= j
        /\ ReturnStep(i) => rres'[i] = "returned"
      ]_vars

\* merchants answered 500 and summary 200: the summary has been replaced, the
\* merchant ranking still holds its previous value.
C1_Witness ==
    \E i \in Callers :
        /\ rpc[i] = "json"
        /\ rstat[i]["summary"] = "ok"
        /\ rstat[i]["merchants"] = "bad"
        /\ Views[rpos[i]] = "transactions"
        /\ summary = OtherSummary
        /\ merchants # <<>>

\* ---------------------------------------------------------------- C2

\* C2: a rejected request does not block the others: when a refresh returns,
\* every view whose own request answered 2xx has been assigned.
C2_TransportFailureIsolated ==
    [][\A i \in Callers :
        ReturnStep(i) =>
            \A v \in ViewSet :
                rstat[i][v] = "ok" =>
                    \/ v \in Applied(i)
                    \/ rpc[i] = "json" /\ v = Views[rpos[i]]
      ]_vars

\* ---------------------------------------------------------------- C3

C4_ResetSuccess ==
    [][(xpc = "json" /\ xpc' = "done") =>
            /\ transactions' = <<>>
            /\ messages' = <<>>
            /\ spending' = EmptyMap
            /\ trends' = EmptyMap
            /\ currency' = "USD"
            /\ summary' = xbody
      ]_vars

\* A reset has succeeded on a filled dashboard with a body that is not the
\* client's zero summary.
C4_Witness ==
    /\ xpc = "done"
    /\ xres = "ok"
    /\ xbody = OtherSummary
    /\ summary = OtherSummary
    /\ transactions = <<>>
    /\ messages = <<>>
    /\ currency = "USD"
    /\ merchants # <<>>
    /\ rpc["mount"] = "done"

\* ---------------------------------------------------------------- C5

\* C5: a reset whose request fails sets the error to the failure's message,
\* and neither that step nor the start of the reset changes transactions,
\* messages, summary, spending, trends, merchants or currency.
C5_ResetFailure ==
    [][/\ (xpc = "posting" /\ xpc' = "done") =>
            /\ xres' \in {"bad", "rejected"}
            /\ xres' = "bad" => error' = "Failed to reset dashboard data"
            /\ xres' = "rejected" => error' \in TransportMessages
            /\ UNCHANGED dataVars
       /\ (xpc \in {"idle", "done"} /\ xpc' = "posting") => UNCHANGED dataVars
      ]_vars

\* A reset has failed with a non-2xx response on a filled dashboard.
C5_Witness ==
    /\ xpc = "done"
    /\ xres = "bad"
    /\ error = "Failed to reset dashboard data"
    /\ transactions # <<>>
    /\ messages # <<>>
    /\ summary = OtherSummary
    /\ currency = "EUR"

\* ---------------------------------------------------------------- C6

\* C6: the step that completes a successful reset leaves the merchant ranking
\* empty.
C6_ResetClearsMerchants ==
    [][(xpc = "json" /\ xpc' = "done") => merchants' = <<>>]_vars

\* ---------------------------------------------------------------- C7

\* C7: the step that handles a 2xx upload body {transactions: T, metadata:
\* {currency: c}} sets the list to T and the currency to c and calls
\* fetchData, which issues the five requests; fetchData is called by the
\* upload in no other step, and the upload resumes only when it has returned.
C7_UploadStructured ==
    [][/\ (upc = "json" /\ ures = "ok" /\ upc' # upc /\ ubody.kind = "object"
               /\ ubody.metadata.present /\ Truthy(ubody.metadata.currency)) =>
            /\ transactions' = ubody.transactions
            /\ currency' = ubody.metadata.currency
            /\ upc' = "refreshing"
            /\ rpc'["upload"] = "fetching"
            /\ \A v \in ViewSet : rstat'["upload"][v] = "pending"
       /\ (rpc'["upload"] = "fetching" /\ rpc["upload"] # "fetching") =>
            upc = "json" /\ ures = "ok" /\ upc' = "refreshing"
       /\ (upc = "refreshing" /\ upc' # upc) =>
            rpc["upload"] = "done" /\ rpc'["upload"] = "done" /\ upc' = "done"
      ]_vars

\* The structured body has been applied and the five requests are out.
C7_Witness ==
    /\ upc = "refreshing"
    /\ ures = "ok"
    /\ ubody.kind = "object"
    /\ ubody.transactions = <<Tx1, Tx2>>
    /\ transactions = <<Tx1, Tx2>>
    /\ currency = "GBP"
    /\ rpc["upload"] = "fetching"
    /\ \A v \in ViewSet : rstat["upload"][v] = "pending"

\* ---------------------------------------------------------------- C8

\* A step of the upload or of the fetchData call it awaits.
UploadStep ==
    \/ upc' # upc
    \/ rpc'["upload"] # rpc["upload"]
    \/ rpos'["upload"] # rpos["upload"]
    \/ rstat'["upload"] # rstat["upload"]

\* C8 as stated: an upload that succeeds with a bare array body sets the list
\* to that array and, from there to its completion, leaves currency unchanged.
C8_ArrayKeepsCurrency ==
    [][(upc \in {"json", "refreshing"} /\ ures = "ok" /\ ubody.kind = "array" /\ UploadStep) =>
            /\ upc = "json" => transactions' = ubody.items
            /\ currency' = currency
      ]_vars

\* C8 amended: the step that handles a bare array body sets the list to that
\* array and leaves currency unchanged; the refresh the upload then awaits
\* changes currency only when it assigns a 2xx transaction list that is
\* non-empty and whose first element carries a currency tag, to that tag.
C8_ArrayKeepsCurrencyUntilRefresh ==
    [][(upc \in {"json", "refreshing"} /\ ures = "ok" /\ ubody.kind = "array" /\ UploadStep) =>
            /\ upc = "json" => transactions' = ubody.items /\ currency' = currency
            /\ currency' # currency =>
                  /\ rpc["upload"] = "json"
                  /\ Views[rpos["upload"]] = "transactions"
                  /\ rstat["upload"]["transactions"] = "ok"
                  /\ Len(rbody["upload"]) > 0
                  /\ Truthy(rbody["upload"][1].currency)
                  /\ currency' = rbody["upload"][1].currency
      ]_vars

\* A bare array has been applied over a currency set by an earlier structured
\* upload.
C8_Witness ==
    /\ upc = "refreshing"
    /\ ures = "ok"
    /\ ubody.kind = "array"
    /\ transactions = ubody.items
    /\ currency = "GBP"
    /\ rpc["upload"] = "fetching"

\* ---------------------------------------------------------------- C9

\* C9: a non-2xx upload sets the error to the body's detail if present, else
\* to the body's message if present, else to the generic text.
C9_UploadErrorChain ==
    [][(upc = "json" /\ ures = "bad" /\ upc' = "done") =>
            error' = IF Truthy(ubody.detail) THEN ubody.detail
                     ELSE IF Truthy(ubody.message) THEN ubody.message
                     ELSE "Upload failed"
      ]_vars

\* ---------------------------------------------------------------- C10

\* C10: no step of an upload that fails (its start, the non-2xx response, the
\* rejection, the throw) changes the transaction list or the currency or
\* calls fetchData, and a failed upload ends with no request of its own out.
C10_FailedUploadAborts ==
    /\ [][((upc \in {"idle", "done"} /\ upc' = "posting")
            \/ (upc = "posting" /\ upc' # upc /\ ures' \in {"bad", "rejected"})
            \/ (upc = "json" /\ ures = "bad" /\ upc' # upc)) =>
               /\ UNCHANGED <<transactions, currency, isLoadingData>>
               /\ UNCHANGED fetchVars
               /\ upc' \in {"posting", "json", "done"}
         ]_vars
    /\ []((upc = "done" /\ ures \in {"bad", "rejected"}) =>
             rpc["upload"] \in {"idle", "done"})

\* An upload has failed on a filled dashboard without ever calling fetchData.
C10_Witness ==
    /\ upc = "done"
    /\ ures = "bad"
    /\ error = "Unsupported file"
    /\ transactions = <<Tx1, Tx2>>
    /\ currency = "EUR"
    /\ rpc["upload"] = "idle"
    /\ ~isUploading

\* ---------------------------------------------------------------- C11

\* The user messages of a history.
UserMessages(m) == {k \in 1..Len(m) : m[k].role = "user"}

\* C11: while the input is empty or whitespace-only, or a chat turn is in
\* flight, no step appends a user message or issues a chat request.
C11_SendGuarded ==
    [][(Trim(input) = "" \/ turns # <<>>) =>
          /\ Cardinality(UserMessages(messages')) <= Cardinality(UserMessages(messages))
          /\ Len(turns') <= Len(turns)
      ]_vars

\* ---------------------------------------------------------------- C12

\* The k-th turn returns in this step with its request failed.
TurnFails(k) ==
    /\ turns[k].pc = "posting"
    /\ Len(turns') < Len(turns)
    /\ turns' = Without(turns, k)

\* The k-th turn returns in this step with its body parsed.
TurnSucceeds(k) ==
    /\ turns[k].pc = "json"
    /\ Len(turns') < Len(turns)
    /\ turns' = Without(turns, k)

\* C12: the step in which a turn ends with its request rejected or answered
\* non-2xx appends one bot message with the fallback text and leaves the
\* history exactly 2 longer than it was when the turn started.
C12_FailureAddsTwo ==
    [][\A k \in 1..Len(turns) : TurnFails(k) =>
          /\ messages' = Append(messages, [role |-> "bot", content |-> FallbackText])
          /\ Len(messages') = turns[k].start + 2
      ]_vars

\* ---------------------------------------------------------------- C13

BotMessages(m) == {k \in 1..Len(m) : m[k].role = "bot"}

\* C13: the step in which a turn ends appends exactly one bot message, the
\* server's response text on success and the fallback text on failure; and
\* every user message without a reply belongs to a turn still in flight.
C13_TurnAnswered ==
    /\ [][\A k \in 1..Len(turns) :
             /\ TurnSucceeds(k) =>
                   messages' = Append(messages, [role |-> "bot", content |-> turns[k].res])
             /\ TurnFails(k) =>
                   messages' = Append(messages, [role |-> "bot", content |-> FallbackText])
         ]_vars
    /\ [](Cardinality(UserMessages(messages))
             <= Cardinality(BotMessages(messages)) + Len(turns))

\* Two turns have ended, the first answered by the server and the second by
\* the fallback.
C13_Witness ==
    /\ turns = <<>>
    /\ messages = <<[role |-> "user", content |-> "Summarize my spending"],
                    [role |-> "bot", content |-> "You spent 3 on food."],
                    [role |-> "user", content |-> "Summarize my spending"],
                    [role |-> "bot", content |-> FallbackText]>>

\* ---------------------------------------------------------------- C14

IsPrefix(a, b) == Len(a) <= Len(b) /\ SubSeq(b, 1, Len(a)) = a

\* C14: in every step but the one in which a successful reset is applied the
\* old history is a prefix of the new one.
C14_HistoryAppendOnly ==
    [][(xpc = "json" /\ xpc' = "done") \/ IsPrefix(messages, messages')]_vars

\* A history cleared by a reset has grown again by two turns.
C14_Witness ==
    /\ xpc = "done"
    /\ xres = "ok"
    /\ Len(messages) = 4
    /\ turns = <<>>

\* ---------------------------------------------------------------- C15

\* C15: at most one snapshot timer is pending; a change of the transaction
\* list under a mounted card leaves the newly armed timer as the only one; a
\* snapshot request leaves only when a timer fires, one request per firing,
\* for the latest scheduling and with an empty history.
C15_SingleSlotDebounce ==
    /\ [](Cardinality(timers) <= 1)
    /\ [][(xpc = "json" /\ xpc' = "done" /\ activeTab = "history") =>
              /\ scheduled' = scheduled + 1
              /\ timers' = {scheduled'}
              /\ timers' \cap timers = {}
              /\ snapshots' = snapshots
         ]_vars
    /\ [][snapshots' # snapshots /\ Len(snapshots') >= Len(snapshots) /\ activeTab' = activeTab =>
              \/ \E t \in timers :
                    /\ t = scheduled
                    /\ timers' = {}
                    /\ snapshots' = Append(snapshots, snapshots'[Len(snapshots')])
                    /\ snapshots'[Len(snapshots')].id = t
                    /\ snapshots'[Len(snapshots')].history = <<>>
              \/ \E k \in 1..Len(snapshots) :
                    /\ snapshots[k].pc = "posting"
                    /\ snapshots'[k].pc = "json"
                    /\ Len(snapshots') = Len(snapshots)
         ]_vars

\* The card was mounted and the list then replaced twice inside the delay:
\* one request has left, for the third scheduling.
C15_Witness ==
    /\ activeTab = "history"
    /\ scheduled = 3
    /\ timers = {}
    /\ Len(snapshots) = 1
    /\ snapshots[1].id = 3
    /\ snapshots[1].history = <<>>

\* ---------------------------------------------------------------- C16

\* The same letter, in either case.
SameLetter(a, b) ==
    \/ a = b
    \/ \E n \in 1..Len(UpperCase) :
          \/ a = UpperCase[n] /\ b = LowerCase[n]
          \/ a = LowerCase[n] /\ b = UpperCase[n]

\* `part` occurs in `text`, case aside.
ContainsNoCase(text, part) ==
    \E i \in 0..(Len(text) - Len(part)) :
        \A j \in 1..Len(part) : SameLetter(text[i + j], part[j])

\* The transaction is one the search text and the type filter select.
Selected(t, s, f) ==
    /\ \/ ContainsNoCase(t.description, s)
       \/ t.category.present /\ ContainsNoCase(t.category.text, s)
       \/ ~t.category.present /\ s = <<>>
    /\ f = "all" \/ t.type = f

\* How often t occurs in L.
Count(L, t) == Cardinality({k \in 1..Len(L) : L[k] = t})
Elements(L) == {L[k] : k \in 1..Len(L)}

\* C16: the filtered view holds each selected transaction of the list as
\* often as the list does and nothing else, and filtering the view again
\* with the same search text and type filter gives the view.
C16_FilterExact ==
    TableMounted =>
        /\ \A t \in Elements(transactions) \cup Elements(filteredTransactions) :
              Count(filteredTransactions, t) =
                 IF Selected(t, search, filterType) THEN Count(transactions, t) ELSE 0
        /\ render(filteredTransactions, search, filterType, sortOrder) = filteredTransactions

\* A search in capitals with the debit filter finds the one debit that has
\* the text in its category, not the credit or the debit without it.
C16_Witness ==
    /\ TableMounted
    /\ transactions = <<Tx2, Tx5, Tx4>>
    /\ search = <<"C", "A", "F", "E">>
    /\ filterType = "debit"
    /\ filteredTransactions = <<Tx5>>

\* ---------------------------------------------------------------- C17

Reverse(L) == [k \in 1..Len(L) |-> L[Len(L) + 1 - k]]

\* Calendar order of two dates.
DateBefore(a, b) ==
    \/ a[1] < b[1]
    \/ a[1] = b[1] /\ a[2] < b[2]
    \/ a[1] = b[1] /\ a[2] = b[2] /\ a[3] < b[3]

DistinctDates(L) == \A i, j \in 1..Len(L) : i # j => L[i].date # L[j].date

\* L runs from the oldest date to the newest.
Ascending(L) == \A k \in 1..(Len(L) - 1) : DateBefore(L[k].date, L[k + 1].date)

\* asc and desc are the two views of one list with distinct dates.
SortedBothWays(asc, desc) ==
    /\ asc = Reverse(desc)
    /\ Ascending(asc)
    /\ Ascending(Reverse(desc))

\* C17: on a list with pairwise distinct dates the ascending view is the
\* reverse of the descending view and each is in date order; toggleSort
\* reverses such a view, and toggling once more gives the view back.
C17_SortReverses ==
    /\ [](TableMounted /\ DistinctDates(transactions) =>
            SortedBothWays(render(transactions, search, filterType, "asc"),
                           render(transactions, search, filterType, "desc")))
    /\ [][(sortOrder' # sortOrder /\ activeTab' = activeTab) =>
             /\ DistinctDates(transactions) =>
                   render(transactions', search', filterType', sortOrder') = Reverse(filteredTransactions)
             /\ render(transactions', search', filterType', sortOrder) = filteredTransactions
         ]_vars

\* The order has been toggled to ascending on three transactions given in
\* no date order.
C17_Witness ==
    /\ TableMounted
    /\ sortOrder = "asc"
    /\ transactions = <<Tx1, Tx2, Tx3>>
    /\ filteredTransactions = <<Tx3, Tx1, Tx2>>

\* ---------------------------------------------------------------- C18

\* The least number of pages of `size` that hold n items.
PagesFor(n, size) == CHOOSE p \in 0..n : p * size >= n /\ (p - 1) * size < n

\* C18: with pageSize, page k shows the items at positions (k-1)*pageSize+1
\* to k*pageSize of the filtered and sorted view, as far as they exist; the
\* page count is ceil(n / pageSize); the page moves only by one, forward
\* only below the last page and backward only above page 1; a view of 37
\* items shows items 1 to 25 on page 1 and 26 to 37 on page 2.
C18_Pagination ==
    /\ [](activeTab = "history" =>
            LET n == Len(filteredTransactions)
                first == (currentPage - 1) * HistoryPageSize IN
            /\ Len(paginatedTransactions) =
                  IF n <= first THEN 0
                  ELSE IF n - first < HistoryPageSize THEN n - first ELSE HistoryPageSize
            /\ \A k \in 1..Len(paginatedTransactions) :
                  paginatedTransactions[k] = filteredTransactions[first + k]
            /\ totalPages = PagesFor(n, HistoryPageSize)
            /\ n = 37 =>
                  /\ currentPage \in {1, 2}
                  /\ currentPage = 1 => paginatedTransactions = SubSeq(filteredTransactions, 1, 25)
                  /\ currentPage = 2 => paginatedTransactions = SubSeq(filteredTransactions, 26, 37))
    /\ [][(currentPage' # currentPage /\ activeTab' = activeTab) =>
             \/ /\ currentPage' = currentPage + 1
                /\ currentPage < PagesFor(Len(filteredTransactions), HistoryPageSize)
             \/ /\ currentPage' = currentPage - 1
                /\ currentPage > 1
         ]_vars

\* The second and last page of the long list: the rows left over, and
\* handleNextPage would leave the page where it is.
C18_Witness ==
    /\ activeTab = "history"
    /\ Len(filteredTransactions) = LongRows
    /\ currentPage = 2
    /\ totalPages = 2
    /\ Len(paginatedTransactions) = LongRows - HistoryPageSize
    /\ PagerShown

\* ---------------------------------------------------------------- C19

\* C19: no search, type filter, sort toggle, page move or mount of the table
\* changes the transaction list.
C19_SourceUntouched ==
    [][transactions' = transactions]_vars

\* The table shows two of three transactions, in another order than the
\* list, which is as it was given.
C19_Witness ==
    /\ TableMounted
    /\ transactions = <<Tx2, Tx3, Tx1>>
    /\ filterType = "debit"
    /\ sortOrder = "asc"
    /\ filteredTransactions = <<Tx1, Tx2>>

\* ---------------------------------------------------------------- C20

\* C20: the step that starts a refresh or a reset sets the loading flag, and
\* the step in which the call returns clears it, whatever the responses were.
C20_LoadingBrackets ==
    [][/\ \A i \in Callers :
             /\ (rpc[i] \in {"idle", "done"} /\ rpc'[i] \notin {"idle", "done"}) => isLoadingData'
             /\ (rpc[i] \notin {"idle", "done"} /\ rpc'[i] = "done") => ~isLoadingData'
       /\ (xpc \in {"idle", "done"} /\ xpc' \notin {"idle", "done"}) => isLoadingData'
       /\ (xpc \notin {"idle", "done"} /\ xpc' = "done") => ~isLoadingData'
      ]_vars

\* The initial refresh has returned and a reset has failed at transport
\* level: the flag is clear.
C20_Witness ==
    /\ rpc["mount"] = "done"
    /\ xpc = "done"
    /\ xres = "rejected"
    /\ error = "Failed to fetch"
    /\ ~isLoadingData

\* ---------------------------------------------------------------- C21

\* C21: the uploading flag is set only while an upload call is running, and
\* the step in which the call returns (after a rejection, after a non-2xx
\* response, or after the refresh it awaited) leaves the flag false and the
\* file input empty.
C21_UploadCleansUp ==
    /\ [](isUploading => upc \in {"posting", "json", "refreshing"})
    /\ [][(upc \in {"posting", "json", "refreshing"} /\ upc' = "done") =>
              /\ ~isUploading'
              /\ fileInput' = ""
         ]_vars
    /\ [](upc = "done" => ~isUploading /\ fileInput = "")

\* An upload has returned after the refresh it awaited: the list of the
\* upload is shown, the flag is clear and the input empty.
C21_Witness ==
    /\ upc = "done"
    /\ ures = "ok"
    /\ rpc["upload"] = "done"
    /\ transactions = <<Tx1, Tx2>>
    /\ summary = ZeroSummary
    /\ ~isUploading
    /\ fileInput = ""

\* ---------------------------------------------------------------- C22

\* C22: every request that is out has a URL that starts with the configured
\* base URL followed by the version segment, and without a configured base
\* URL nothing starts.
C22_ConfiguredUrls ==
    /\ \A u \in RequestsOut : u[1] = VITE_API_BASE /\ u[2] = "/api/v1"
    /\ ~Truthy(VITE_API_BASE) =>
          /\ RequestsOut = {}
          /\ rpc["mount"] = "idle"
          /\ activeTab = "dashboard"

\* ---------------------------------------------------------------- C23

\* C23: a step of fetchData that assigns the transaction list sets the
\* currency to the tag of the first element when the list is not empty and
\* that element carries a tag; every other step of fetchData (another view
\* assigned, a response that settles, an empty list, a first element without
\* tag) leaves the currency as it was.
C23_CurrencyRule ==
    [][\A i \in Callers :
          (rpc[i] \in {"fetching", "json"}
              /\ (rpc'[i] # rpc[i] \/ rpos'[i] # rpos[i] \/ rstat'[i] # rstat[i])) =>
              IF rpc[i] = "json" /\ Views[rpos[i]] = "transactions"
              THEN /\ transactions' = rbody[i]
                   /\ currency' = IF rbody[i] # <<>> /\ rbody[i][1].currency # Undefined
                                  THEN rbody[i][1].currency
                                  ELSE currency
              ELSE currency' = currency]_vars

\* The initial load set the currency from a tagged first element, then the
\* refresh after an upload brought a list whose first element has no tag.
C23_Witness ==
    /\ rpc["mount"] = "done"
    /\ rpc["upload"] = "done"
    /\ upc = "done"
    /\ transactions = <<Tx2>>
    /\ currency = "EUR"

\* ---------------------------------------------------------------- C24

\* C24: the step that sends a chat request appends the user message to the
\* history and gives the request that message's text, the history as it was
\* before the step (same length, same order, same contents, `bot` sent as
\* `assistant` and `user` as `user`) and the context tag of the chat panel.
C24_RequestBody ==
    [][Len(turns') = Len(turns) + 1 =>
          LET request == turns'[Len(turns')].body IN
          /\ request.message # ""
          /\ messages' = Append(messages, [role |-> "user", content |-> request.message])
          /\ Len(request.history) = Len(messages)
          /\ \A k \in 1..Len(messages) :
                /\ request.history[k].content = messages[k].content
                /\ messages[k].role = "bot" => request.history[k].role = "assistant"
                /\ messages[k].role = "user" => request.history[k].role = "user"
                /\ messages[k].role \in {"bot", "user"}
          /\ request.context = "FINANCIAL_AI_PAGE"]_vars

\* A second turn is out: its request carries the first turn, question and
\* answer.
C24_Witness ==
    \E k \in 1..Len(turns) :
        /\ turns[k].pc = "posting"
        /\ Len(turns[k].body.history) = 2
        /\ turns[k].body.history[1].role = "user"
        /\ turns[k].body.history[2].role = "assistant"
        /\ Len(messages) = 3

\* ---------------------------------------------------------------- C25

\* C25: on the history tab the current page is at least 1 and at most the
\* page count (1 when there is no page), and the page shown is not empty
\* while the filtered list is not empty.
C25_PageInRange ==
    activeTab = "history" =>
        LET pages == PagesFor(Len(filteredTransactions), HistoryPageSize) IN
        /\ 1 <= currentPage
        /\ currentPage <= (IF pages > 1 THEN pages ELSE 1)
        /\ filteredTransactions # <<>> => paginatedTransactions # <<>>

\* ---------------------------------------------------------------- C26

\* C26: while the last reset has succeeded and no load has been started
\* since it was issued, the slices it cleared (transactions, spending,
\* trends, summary, currency) stay as it left them.
C26_ResetIsFinal ==
    [][(xpc = "done" /\ xres = "ok" /\ xpc' = "done") =>
          UNCHANGED <<transactions, spending, trends, summary, currency>>]_vars

\* ---------------------------------------------------------------- C27

\* C27: once the request of the last scheduling of the mounted card has been
\* sent and has completed, the content is final: no response of a request
\* sent before it changes what is shown.
C27_LatestSnapshotWins ==
    [][(/\ activeTab = "history" /\ activeTab' = "history"
        /\ timer \notin timers /\ timer' = timer
        /\ \A k \in 1..Len(snapshots) : snapshots[k].live => snapshots[k].id # timer) =>
          content' = content]_vars

\* ---------------------------------------------------------------- C28

\* C28: the history alternates user, bot, user, bot, ... from a user message
\* on, so that only its last message can be a user message without reply.
C28_Alternates ==
    \A k \in 1..Len(messages) :
        messages[k].role = IF k % 2 = 1 THEN "user" ELSE "bot"

\* ---------------------------------------------------------------- C29

\* C29: at most one chat request is in flight.
C29_OneInFlight ==
    Cardinality({k \in 1..Len(turns) : turns[k].pc \in {"posting", "json"}}) <= 1

\* ---------------------------------------------------------------- C30

\* C30: while the loading flag is false no fetchData and no handleRefresh is
\* between its call and its return.
C30_LoadingCoversCalls ==
    ~isLoadingData =>
        /\ \A i \in Callers : rpc[i] \notin {"fetching", "json"}
        /\ xpc \notin {"posting", "json"}

====
